---------------------------- MODULE Spec2Model ----------------------------
(***************************************************************************)
(* Session-authenticated to-do list (views.py, db.py).                     *)
(*                                                                         *)
(* Spec      one browser session issuing requests one after the other;     *)
(*           every request handler is one action.                          *)
(* ConcSpec  complete/delete requests served concurrently, each on its own *)
(*           store connection, one action per store call of the handler.   *)
(***************************************************************************)
EXTENDS Integers, Sequences, FiniteSets, TLC

VARIABLES
    session,          \* keys present in the Flask session (only 'logged_in' is used)
    flashes,          \* the session's queue of flashed messages
    tasks,            \* the tasks table: task_id -> row
    sqlite_sequence,  \* AUTOINCREMENT bookkeeping: largest task_id ever assigned
    assigned,         \* history: every task_id ever assigned
    response,         \* the response of the latest request of Spec
    g_db,             \* g.db when the latest handler of Spec returned
    pc,               \* ConcSpec: position of each concurrent request
    req,              \* ConcSpec: route and task_id of each concurrent request
    conn,             \* ConcSpec: state of each request's own connection
    pending,          \* ConcSpec: uncommitted table image of each connection
    writeLock,        \* ConcSpec: connection holding the database write lock (0: none)
    tasks0            \* ConcSpec: history: the table before the concurrent requests

vars == <<session, flashes, tasks, sqlite_sequence, assigned, response, g_db,
          pc, req, conn, pending, writeLock, tasks0>>

concVars == <<pc, req, conn, pending, writeLock, tasks0>>

---------------------------------------------------------------------------
(* Bounds *)

MaxId == 3        \* no insert once sqlite_sequence has reached MaxId
MaxFlashes == 1   \* no flashing request once the queue holds MaxFlashes messages
NumWorkers == 2   \* concurrent requests of ConcSpec

---------------------------------------------------------------------------
(* Configuration (app.config) *)

USERNAME == "admin"
PASSWORD == "secret"

---------------------------------------------------------------------------
(* Values *)

Guarded == {"tasks", "new_task", "complete", "delete_entry"}

Digits == <<"0", "1", "2", "3", "4", "5", "6", "7", "8", "9">>

IsDigit(c) == \E i \in 1..10 : Digits[i] = c

DigitValue(c) == (CHOOSE i \in 1..10 : Digits[i] = c) - 1

RECURSIVE ParseInt(_)
ParseInt(s) ==
    IF Len(s) = 0 THEN 0
    ELSE 10 * ParseInt(SubSeq(s, 1, Len(s) - 1)) + DigitValue(s[Len(s)])

IntegerValue(n) == [type |-> "integer", int |-> n, text |-> <<>>]
TextValue(s)    == [type |-> "text", int |-> 0, text |-> s]

\* The priority column has INTEGER affinity: text that is a well-formed
\* integer literal is stored as that integer, any other text stays text.
IntegerAffinity(s) ==
    IF Len(s) > 0 /\ \A i \in 1..Len(s) : IsDigit(s[i])
    THEN IntegerValue(ParseInt(s))
    ELSE TextValue(s)

\* Form fields of POST /add/.  name and due_date are strings, priority is the
\* sequence of its characters (it is parsed by the store).
NameValues     == {"", "Buy milk"}
DueDateValues  == {"", "01/01/2030"}
PriorityValues == {<<>>, <<"0", "5">>, <<"h">>}

TaskForm(D, n, d, p) ==
    [k \in D |-> CASE k = "name" -> n [] k = "due_date" -> d [] OTHER -> p]

TaskForms ==
    {TaskForm(D, n, d, p) : D \in SUBSET {"name", "due_date", "priority"},
                            n \in NameValues, d \in DueDateValues,
                            p \in PriorityValues}

\* Python truthiness of a form value: `not v`
Falsy(k, v) == IF k = "priority" THEN v = <<>> ELSE v = ""

LoginForms ==
    UNION {[D -> {USERNAME, PASSWORD, "guest"}] : D \in SUBSET {"username", "password"}}

TaskIds == 0..(MaxId + 1)

NoResponse ==
    [route |-> "none", code |-> 0, view |-> "", error |-> "", handler |-> FALSE,
     open_tasks |-> <<>>, closed_tasks |-> <<>>]

Render(route, template, err, h, open, closed) ==
    [route |-> route, code |-> 200, view |-> template, error |-> err, handler |-> h,
     open_tasks |-> open, closed_tasks |-> closed]

Redirect(route, endpoint, h) ==
    [route |-> route, code |-> 302, view |-> endpoint, error |-> "", handler |-> h,
     open_tasks |-> <<>>, closed_tasks |-> <<>>]

\* request.form[key] with the key absent raises BadRequestKeyError
BadRequest(route, h) ==
    [route |-> route, code |-> 400, view |-> "BadRequestKeyError", error |-> "",
     handler |-> h, open_tasks |-> <<>>, closed_tasks |-> <<>>]

---------------------------------------------------------------------------
(* The store *)

Row(n, d, p, s) == [name |-> n, due_date |-> d, priority |-> p, status |-> s]

\* db.py: schema and the two seeded rows
SeedTasks ==
    (1 :> Row("Finish this tutorial", "03/25/2015", IntegerValue(10), 1)) @@
    (2 :> Row("Finish Real Python Course 2", "03/25/2015", IntegerValue(10), 1))

Max(S) == CHOOSE x \in S : \A y \in S : y <= x

\* mutant: INTEGER PRIMARY KEY without AUTOINCREMENT (largest rowid in the table + 1)
NextRowidOfTable(t, sq) == Max({0} \cup DOMAIN t) + 1

\* INTEGER PRIMARY KEY AUTOINCREMENT: one more than the largest rowid ever used
NextRowid(t, sq) == Max({sq} \cup DOMAIN t) + 1

\* mutant: the row is inserted closed
InsertTaskClosed(t, sq, n, d, p) ==
    t @@ (NextRowid(t, sq) :> Row(n, d, IntegerAffinity(p), 0))

\* INSERT INTO tasks (name, due_date, priority, status) VALUES(?,?,?,1)
InsertTask(t, sq, n, d, p) ==
    t @@ (NextRowid(t, sq) :> Row(n, d, IntegerAffinity(p), 1))

\* mutant: UPDATE without its WHERE clause
UpdateStatusAllRows(t, task_id) == [i \in DOMAIN t |-> [t[i] EXCEPT !.status = 0]]

\* mutant: the statement flips the status
UpdateStatusToggle(t, task_id) ==
    [i \in DOMAIN t |-> IF i = task_id THEN [t[i] EXCEPT !.status = 1 - @] ELSE t[i]]

\* UPDATE tasks SET status= 0 WHERE task_id=<task_id>
UpdateStatus(t, task_id) ==
    [i \in DOMAIN t |-> IF i = task_id THEN [t[i] EXCEPT !.status = 0] ELSE t[i]]

\* mutant: DELETE without its WHERE clause
DeleteAllRows(t, task_id) == <<>>

\* DELETE FROM tasks WHERE task_id=<task_id>
DeleteRow(t, task_id) == [i \in DOMAIN t \ {task_id} |-> t[i]]

RECURSIVE Scan(_, _, _)
\* rows of t with the given status, in rowid order, projected as the listing does
Scan(t, st, from) ==
    IF \A i \in DOMAIN t : i < from THEN <<>>
    ELSE LET i == CHOOSE j \in DOMAIN t : j >= from /\ \A k \in DOMAIN t : k >= from => j <= k
         IN  (IF t[i].status = st
              THEN <<[name |-> t[i].name, due_date |-> t[i].due_date,
                      priority |-> t[i].priority, task_id |-> i]>>
              ELSE <<>>) \o Scan(t, st, i + 1)

\* SELECT name,due_date, priority, task_id FROM tasks WHERE status=1
OpenTasks(t) == Scan(t, 1, 0)

\* SELECT name, due_date, priority, task_id FROM tasks WHERE status=0
ClosedTasks(t) == Scan(t, 0, 0)

---------------------------------------------------------------------------
(* Session *)

LoggedIn == "logged_in" \in session

\* flash(message)
Flash(q, message) == Append(q, message)

\* get_flashed_messages() in a rendered template empties the queue
Flashed(q) == <<>>

CanFlash == Len(flashes) < MaxFlashes

---------------------------------------------------------------------------
(* Spec: request handlers *)

\* mutant: the decorator calls the handler without looking at the session
WrapUnguarded(route, handler) == handler

\* login_required.wrap: the handler runs only with 'logged_in' in the session
Wrap(route, handler) ==
    IF LoggedIn
    THEN handler
    ELSE /\ CanFlash
         /\ flashes' = Flash(flashes, "you need to login first")
         /\ response' = Redirect(route, "login", FALSE)
         /\ g_db' = "unset"
         /\ UNCHANGED <<session, tasks, sqlite_sequence, assigned>>

Logout ==
    /\ UNCHANGED concVars
    /\ CanFlash
    /\ session' = session \ {"logged_in"}
    /\ flashes' = Flash(flashes, "Goodbye")
    /\ response' = Redirect("logout", "login", TRUE)
    /\ g_db' = "unset"
    /\ UNCHANGED <<tasks, sqlite_sequence, assigned>>

\* mutant: the password is not compared
CredentialsUsernameOnly(form) ==
    IF "username" \notin DOMAIN form THEN "bad_request"
    ELSE IF form["username"] /= USERNAME THEN "invalid"
    ELSE "valid"

\* outcome of the credential test of line 84, evaluated left to right
Credentials(form) ==
    IF "username" \notin DOMAIN form THEN "bad_request"
    ELSE IF form["username"] /= USERNAME THEN "invalid"
    ELSE IF "password" \notin DOMAIN form THEN "bad_request"
    ELSE IF form["password"] /= PASSWORD THEN "invalid"
    ELSE "valid"

LoginGet ==
    /\ UNCHANGED concVars
    /\ response' = Render("login", "login.html", "", TRUE, <<>>, <<>>)
    /\ flashes' = Flashed(flashes)
    /\ g_db' = "unset"
    /\ UNCHANGED <<session, tasks, sqlite_sequence, assigned>>

LoginPost(form) ==
    /\ UNCHANGED concVars
    /\ g_db' = "unset"
    /\ UNCHANGED <<tasks, sqlite_sequence, assigned>>
    /\ CASE Credentials(form) = "bad_request" ->
              /\ response' = BadRequest("login", TRUE)
              /\ UNCHANGED <<session, flashes>>
         [] Credentials(form) = "invalid" ->
              /\ response' = Render("login", "login.html",
                                    "Invalid Credentials.Please try again", TRUE, <<>>, <<>>)
              /\ flashes' = Flashed(flashes)
              /\ UNCHANGED session
         [] OTHER ->
              /\ CanFlash
              /\ session' = session \cup {"logged_in"}
              /\ flashes' = Flash(flashes, "welcome")
              /\ response' = Redirect("login", "tasks", TRUE)

TasksHandler ==
    /\ response' = Render("tasks", "tasks.html", "", TRUE, OpenTasks(tasks), ClosedTasks(tasks))
    /\ flashes' = Flashed(flashes)
    /\ g_db' = "closed"
    /\ UNCHANGED <<session, tasks, sqlite_sequence, assigned>>

Tasks == Wrap("tasks", TasksHandler) /\ UNCHANGED concVars

NewTaskHandler(form) ==
    /\ UNCHANGED session
    /\ IF {"name", "due_date", "priority"} \ DOMAIN form /= {}
       THEN /\ response' = BadRequest("new_task", TRUE)
            /\ g_db' = "open"
            /\ UNCHANGED <<flashes, tasks, sqlite_sequence, assigned>>
       ELSE IF \E k \in DOMAIN form : Falsy(k, form[k])
       THEN /\ CanFlash
            /\ flashes' = Flash(flashes, "All fields are required .Please try again")
            /\ response' = Redirect("new_task", "tasks", TRUE)
            /\ g_db' = "open"
            /\ UNCHANGED <<tasks, sqlite_sequence, assigned>>
       ELSE /\ CanFlash
            /\ sqlite_sequence < MaxId
            /\ tasks' = InsertTask(tasks, sqlite_sequence,
                                   form["name"], form["due_date"], form["priority"])
            /\ sqlite_sequence' = NextRowid(tasks, sqlite_sequence)
            /\ assigned' = assigned \cup {NextRowid(tasks, sqlite_sequence)}
            /\ g_db' = "closed"
            /\ flashes' = Flash(flashes, "New entry was successfully posted thanks")
            /\ response' = Redirect("new_task", "tasks", TRUE)

NewTask(form) == Wrap("new_task", NewTaskHandler(form)) /\ UNCHANGED concVars

CompleteHandler(task_id) ==
    /\ CanFlash
    /\ tasks' = UpdateStatus(tasks, task_id)
    /\ g_db' = "closed"
    /\ flashes' = Flash(flashes, "The task was marked as complete")
    /\ response' = Redirect("complete", "tasks", TRUE)
    /\ UNCHANGED <<session, sqlite_sequence, assigned>>

Complete(task_id) == Wrap("complete", CompleteHandler(task_id)) /\ UNCHANGED concVars

DeleteEntryHandler(task_id) ==
    /\ CanFlash
    /\ tasks' = DeleteRow(tasks, task_id)
    /\ g_db' = "closed"
    /\ flashes' = Flash(flashes, "The task was deleted")
    /\ response' = Redirect("delete_entry", "tasks", TRUE)
    /\ UNCHANGED <<session, sqlite_sequence, assigned>>

DeleteEntry(task_id) == Wrap("delete_entry", DeleteEntryHandler(task_id)) /\ UNCHANGED concVars

IdleWorkers ==
    /\ pc = [w \in 1..NumWorkers |-> "idle"]
    /\ req = [w \in 1..NumWorkers |-> [route |-> "none", task_id |-> 0]]
    /\ conn = [w \in 1..NumWorkers |-> "unset"]
    /\ pending = [w \in 1..NumWorkers |-> <<>>]
    /\ writeLock = 0

Init ==
    /\ session = {}
    /\ flashes = <<>>
    /\ tasks = SeedTasks
    /\ sqlite_sequence = 2
    /\ assigned = {1, 2}
    /\ response = NoResponse
    /\ g_db = "unset"
    /\ IdleWorkers
    /\ tasks0 = SeedTasks

Next ==
    \/ LoginGet
    \/ \E form \in LoginForms : LoginPost(form)
    \/ Logout
    \/ Tasks
    \/ \E form \in TaskForms : NewTask(form)
    \/ \E task_id \in TaskIds : Complete(task_id)
    \/ \E task_id \in TaskIds : DeleteEntry(task_id)

Spec == Init /\ [][Next]_vars

---------------------------------------------------------------------------
(* ConcSpec: complete and delete requests served concurrently *)

Workers == 1..NumWorkers

\* tables the sequential program reaches from the seeded one by complete and
\* delete requests alone
SeedTables ==
    {[i \in D |-> [SeedTasks[i] EXCEPT !.status = IF i \in C THEN 0 ELSE 1]] :
        D \in SUBSET (DOMAIN SeedTasks), C \in SUBSET (DOMAIN SeedTasks)}

\* the seeded ids and one id that has no row
ConcTaskIds == {0} \cup DOMAIN SeedTasks

\* the statement of the request's handler, applied to table t
Statement(t, r) ==
    IF r.route = "complete" THEN UpdateStatus(t, r.task_id) ELSE DeleteRow(t, r.task_id)

\* mutant: statements do not take the write lock into account
LockIgnored == TRUE

\* a connection can start writing only while no other connection holds the
\* database's write lock (it waits otherwise)
LockFree == writeLock = 0

\* login_required.wrap, then connect_db()
Begin(w, route, task_id) ==
    /\ pc[w] = "idle"
    /\ req' = [req EXCEPT ![w] = [route |-> route, task_id |-> task_id]]
    /\ IF LoggedIn
       THEN /\ conn' = [conn EXCEPT ![w] = "open"]
            /\ pc' = [pc EXCEPT ![w] = "connected"]
            /\ UNCHANGED flashes
       ELSE /\ flashes' = Flash(flashes, "you need to login first")
            /\ pc' = [pc EXCEPT ![w] = "denied"]
            /\ UNCHANGED conn
    /\ UNCHANGED <<session, tasks, sqlite_sequence, assigned, response, g_db,
                   pending, writeLock, tasks0>>

\* g.db.execute(...): the statement runs in the connection's own transaction
Execute(w) ==
    /\ pc[w] = "connected"
    /\ LockFree
    /\ writeLock' = w
    /\ pending' = [pending EXCEPT ![w] = Statement(tasks, req[w])]
    /\ pc' = [pc EXCEPT ![w] = "executed"]
    /\ UNCHANGED <<session, flashes, tasks, sqlite_sequence, assigned, response, g_db,
                   req, conn, tasks0>>

\* g.db.commit()
Commit(w) ==
    /\ pc[w] = "executed"
    /\ tasks' = pending[w]
    /\ pending' = [pending EXCEPT ![w] = <<>>]
    /\ writeLock' = IF writeLock = w THEN 0 ELSE writeLock
    /\ pc' = [pc EXCEPT ![w] = "committed"]
    /\ UNCHANGED <<session, flashes, sqlite_sequence, assigned, response, g_db,
                   req, conn, tasks0>>

\* g.db.close(), flash(...), return redirect(url_for('tasks'))
Finish(w) ==
    /\ pc[w] = "committed"
    /\ conn' = [conn EXCEPT ![w] = "closed"]
    /\ flashes' = Flash(flashes, IF req[w].route = "complete"
                                 THEN "The task was marked as complete"
                                 ELSE "The task was deleted")
    /\ pc' = [pc EXCEPT ![w] = "done"]
    /\ UNCHANGED <<session, tasks, sqlite_sequence, assigned, response, g_db,
                   req, pending, writeLock, tasks0>>

ConcInit ==
    /\ session \in {{}, {"logged_in"}}
    /\ flashes = <<>>
    /\ tasks \in SeedTables
    /\ sqlite_sequence = 2
    /\ assigned = {1, 2}
    /\ response = IF LoggedIn
                  THEN Render("tasks", "tasks.html", "", TRUE, OpenTasks(tasks), ClosedTasks(tasks))
                  ELSE Render("login", "login.html", "", TRUE, <<>>, <<>>)
    /\ g_db = IF LoggedIn THEN "closed" ELSE "unset"
    /\ IdleWorkers
    /\ tasks0 = tasks

ConcNext ==
    \/ \E w \in Workers, route \in {"complete", "delete_entry"}, task_id \in ConcTaskIds :
          Begin(w, route, task_id)
    \/ \E w \in Workers : Execute(w)
    \/ \E w \in Workers : Commit(w)
    \/ \E w \in Workers : Finish(w)

ConcSpec == ConcInit /\ [][ConcNext]_vars

---------------------------------------------------------------------------
(* Properties *)

SentForm(form, keys) == keys \subseteq DOMAIN form

ExactCredentials(form) ==
    /\ SentForm(form, {"username", "password"})
    /\ form["username"] = USERNAME
    /\ form["password"] = PASSWORD

FilledIn(form) ==
    /\ SentForm(form, {"name", "due_date", "priority"})
    /\ form["name"] /= ""
    /\ form["due_date"] /= ""
    /\ form["priority"] /= <<>>

Listed(list, task_id) == \E i \in 1..Len(list) : list[i].task_id = task_id

\* C1: while the session holds no 'logged_in' flag, a request to a guarded
\* route leaves the tasks table unchanged, enqueues the flash 'you need to
\* login first' and answers with a redirect to login, the wrapped handler not
\* being invoked; and every logout leaves the session without the flag.
C1_GuardDenies ==
    [][ /\ ("logged_in" \notin session /\ response'.route \in Guarded) =>
             /\ tasks' = tasks
             /\ sqlite_sequence' = sqlite_sequence
             /\ flashes' = Append(flashes, "you need to login first")
             /\ response'.code = 302
             /\ response'.view = "login"
             /\ ~response'.handler
        /\ response'.route = "logout" => "logged_in" \notin session'
      ]_vars

\* a guarded request was turned away after a login, a create and a logout
C1_Witness ==
    /\ 3 \in assigned
    /\ "logged_in" \notin session
    /\ response.route = "delete_entry"
    /\ ~response.handler
    /\ response.view = "login"
    /\ flashes = <<"you need to login first">>

\* C2 (as stated): a login POST with the exact credentials sets the flag, and a
\* login POST with any other credential pair leaves the flag unset, in every
\* session state.
C2_Original ==
    [][ \A form \in LoginForms :
          (SentForm(form, {"username", "password"}) /\ LoginPost(form)) =>
             IF ExactCredentials(form)
             THEN "logged_in" \in session'
             ELSE "logged_in" \notin session'
      ]_vars

\* C2 (amended): a login POST with the exact credentials sets the flag and
\* redirects to the listing; a login POST with any other credential pair
\* leaves the session as it was (no redirect to the listing); and a guarded
\* route runs its handler exactly when the flag is in the session.
C2_LoginSetsFlag ==
    [][ /\ \A form \in LoginForms :
             LoginPost(form) =>
                IF ExactCredentials(form)
                THEN /\ "logged_in" \in session'
                     /\ response'.code = 302
                     /\ response'.view = "tasks"
                ELSE /\ session' = session
                     /\ response'.code /= 302
        /\ response'.route \in Guarded =>
             (response'.handler <=> "logged_in" \in session)
      ]_vars

\* a login POST with wrong credentials was answered in an authenticated session
C2_Witness ==
    /\ response.route = "login"
    /\ response.error = "Invalid Credentials.Please try again"
    /\ "logged_in" \in session

\* C3: an authenticated create with name, due_date and priority all non-empty
\* adds exactly one row, with status 1 and the submitted name, due_date and
\* priority (as the INTEGER column stores it); the open set grows by one, the
\* closed set and every other row are unchanged.
C3_CreateAddsOneOpenRow ==
    [][ \A form \in TaskForms :
          ("logged_in" \in session /\ FilledIn(form) /\ NewTask(form)) =>
             \E id \in DOMAIN tasks' \ DOMAIN tasks :
                /\ DOMAIN tasks' = DOMAIN tasks \cup {id}
                /\ tasks'[id].status = 1
                /\ tasks'[id].name = form["name"]
                /\ tasks'[id].due_date = form["due_date"]
                /\ tasks'[id].priority = IntegerAffinity(form["priority"])
                /\ \A i \in DOMAIN tasks : tasks'[i] = tasks[i]
                /\ Len(OpenTasks(tasks')) = Len(OpenTasks(tasks)) + 1
                /\ Listed(OpenTasks(tasks'), id)
                /\ ClosedTasks(tasks') = ClosedTasks(tasks)
      ]_vars

\* the latest request created row 3 from the form (Buy milk, 01/01/2030, 05)
C3_Witness ==
    /\ response.route = "new_task"
    /\ response.handler
    /\ flashes = <<"New entry was successfully posted thanks">>
    /\ DOMAIN tasks = {1, 2, 3}
    /\ tasks[3] = Row("Buy milk", "01/01/2030", IntegerValue(5), 1)

\* C4: an authenticated create in which any of name, due_date or priority is
\* empty or missing from the form leaves the number of rows unchanged,
\* produces the flash 'All fields are required .Please try again' and
\* redirects to the listing.
C4_InvalidCreateFlashes ==
    [][ \A form \in TaskForms :
          ("logged_in" \in session /\ ~FilledIn(form) /\ NewTask(form)) =>
             /\ Cardinality(DOMAIN tasks') = Cardinality(DOMAIN tasks)
             /\ flashes' = Append(flashes, "All fields are required .Please try again")
             /\ response'.code = 302
             /\ response'.view = "tasks"
      ]_vars

\* C5: an authenticated complete of an open row closes that row and changes
\* no other; a complete of a closed row or of an id with no row leaves the
\* table unchanged; in each case 'The task was marked as complete' is flashed
\* and the response is the redirect to the listing.
C5_Complete ==
    [][ \A task_id \in TaskIds :
          ("logged_in" \in session /\ Complete(task_id)) =>
             /\ IF task_id \in DOMAIN tasks /\ tasks[task_id].status = 1
                THEN /\ tasks' = [tasks EXCEPT ![task_id].status = 0]
                     /\ ~Listed(OpenTasks(tasks'), task_id)
                     /\ Listed(ClosedTasks(tasks'), task_id)
                ELSE tasks' = tasks
             /\ flashes' = Append(flashes, "The task was marked as complete")
             /\ response'.code = 302
             /\ response'.view = "tasks"
      ]_vars

\* the latest request was a complete, and the table holds a closed and an open row
C5_Witness ==
    /\ response.route = "complete"
    /\ response.handler
    /\ \E i, j \in DOMAIN tasks : tasks[i].status = 0 /\ tasks[j].status = 1

\* C6: an authenticated delete leaves no row with that id in the open or the
\* closed set and changes no other row; a delete of an id with no row leaves
\* the table unchanged; in each case 'The task was deleted' is flashed and
\* the response is the redirect to the listing.
C6_Delete ==
    [][ \A task_id \in TaskIds :
          ("logged_in" \in session /\ DeleteEntry(task_id)) =>
             /\ task_id \notin DOMAIN tasks'
             /\ ~Listed(OpenTasks(tasks'), task_id)
             /\ ~Listed(ClosedTasks(tasks'), task_id)
             /\ DOMAIN tasks' = DOMAIN tasks \ {task_id}
             /\ \A i \in DOMAIN tasks' : tasks'[i] = tasks[i]
             /\ task_id \notin DOMAIN tasks => tasks' = tasks
             /\ flashes' = Append(flashes, "The task was deleted")
             /\ response'.code = 302
             /\ response'.view = "tasks"
      ]_vars

\* the latest request was a delete, row 1 is gone and row 2 is still there
C6_Witness ==
    /\ response.route = "delete_entry"
    /\ response.handler
    /\ DOMAIN tasks = {2}

\* C7: a newly created row's task_id differs from every task_id assigned
\* before, and every row that stays in the table keeps its task_id together
\* with its name, due_date and priority.
C7_TaskIdNeverReused ==
    [][ /\ \A id \in DOMAIN tasks' \ DOMAIN tasks :
             /\ id \notin assigned
             /\ \A old \in assigned : id > old
        /\ \A id \in DOMAIN tasks' \cap DOMAIN tasks :
             /\ tasks'[id].name = tasks[id].name
             /\ tasks'[id].due_date = tasks[id].due_date
             /\ tasks'[id].priority = tasks[id].priority
        /\ assigned \subseteq assigned'
        /\ DOMAIN tasks' \subseteq assigned'
      ]_vars

\* the latest request created row 3 after every earlier row, the one with the
\* highest id (2) included, had been deleted
C7_Witness ==
    /\ response.route = "new_task"
    /\ response.handler
    /\ g_db = "closed"
    /\ assigned = {1, 2, 3}
    /\ DOMAIN tasks = {3}

StatusPartition ==
    \A id \in DOMAIN tasks :
       /\ tasks[id].status \in {0, 1}
       /\ Listed(OpenTasks(tasks), id) <=> tasks[id].status = 1
       /\ Listed(ClosedTasks(tasks), id) <=> tasks[id].status = 0
       /\ ~(Listed(OpenTasks(tasks), id) /\ Listed(ClosedTasks(tasks), id))

\* C8: every row has status 0 or 1 and is listed in exactly one of the open
\* and closed sets; a closed row stays closed while it is in the table, and
\* an id that was ever assigned is never given to a new row, so no request
\* gives a closed row's task_id status 1 again.
C8_NoReopen ==
    /\ []StatusPartition
    /\ [][ /\ \A id \in DOMAIN tasks \cap DOMAIN tasks' :
                tasks[id].status = 0 => tasks'[id].status = 0
           /\ \A id \in DOMAIN tasks' \ DOMAIN tasks : id \notin assigned
         ]_vars

\* the listing shows one closed and one open row after row 1 was deleted
C8_Witness ==
    /\ response.route = "tasks"
    /\ response.handler
    /\ Len(response.closed_tasks) = 1
    /\ Len(response.open_tasks) = 1
    /\ 1 \notin DOMAIN tasks

AllReturned == \A w \in Workers : pc[w] = "done"

RECURSIVE SerialOutcomes(_, _)
\* the tables the requests of the workers W give from table t, over every order
SerialOutcomes(t, W) ==
    IF W = {} THEN {t}
    ELSE UNION {SerialOutcomes(Statement(t, req[w]), W \ {w}) : w \in W}

\* C9: when concurrent complete and delete requests have all returned, the
\* table is what some serial order of them gives: an id with a delete among
\* them has no row, an id with completes only has its row closed, and the
\* rows of the other ids are as they were.
C9_LastWriteWins ==
    AllReturned =>
       /\ tasks \in SerialOutcomes(tasks0, Workers)
       /\ \A id \in DOMAIN tasks0 :
             IF \E w \in Workers : req[w] = [route |-> "delete_entry", task_id |-> id]
             THEN id \notin DOMAIN tasks
             ELSE IF \E w \in Workers : req[w] = [route |-> "complete", task_id |-> id]
             THEN id \in DOMAIN tasks /\ tasks[id] = [tasks0[id] EXCEPT !.status = 0]
             ELSE id \in DOMAIN tasks /\ tasks[id] = tasks0[id]
       /\ DOMAIN tasks \subseteq DOMAIN tasks0

\* a complete and a delete of the open row 1 ran concurrently and have returned
C9_Witness ==
    /\ AllReturned
    /\ 1 \in DOMAIN tasks0
    /\ tasks0[1].status = 1
    /\ \E w \in Workers : req[w] = [route |-> "complete", task_id |-> 1]
    /\ \E w \in Workers : req[w] = [route |-> "delete_entry", task_id |-> 1]
    /\ 1 \notin DOMAIN tasks

\* C10: when a guarded handler that opened a store connection has returned
\* its response without a failing store statement, that connection is closed.
C10_ConnectionReleased ==
    (response.route \in Guarded /\ response.handler /\ response.code \in {200, 302})
       => g_db = "closed"

===========================================================================
